---- MODULE Spec2Model ----
(***************************************************************************)
(* A model of examples/lambda-env/code/hello.py: the handler               *)
(* lambda_handler(event, context), the process environment it reads, the   *)
(* wall clock it reads, json.dumps / json.loads on the response body, and   *)
(* the local test entry point under `if __name__ == '__main__'`.            *)
(*                                                                         *)
(* A Python str is a sequence of one-character strings, so that escaping    *)
(* in json.dumps and formatting in datetime.isoformat are computed          *)
(* character by character.  A Python value is a tagged record [t, v].       *)
(***************************************************************************)
EXTENDS Integers, Sequences, FiniteSets

VARIABLES environ, last, pc, response, response_body_parsed,
          pretty_response

vars == <<environ, last, pc, response, response_body_parsed,
         pretty_response>>

(***************************************************************************)
(* Python values                                                           *)
(***************************************************************************)
PyStr(s) == [t |-> "str", v |-> s]

PyInt(n) == [t |-> "int", v |-> n]

PyNone == [t |-> "NoneType", v |-> <<>>]

\* a dict keeps its items in insertion order: a sequence of <<key, value>>
PyDict(items) == [t |-> "dict", v |-> items]

\* an instance of a class json has no encoder for
PyObject == [t |-> "object", v |-> <<>>]

\* d[k] for a dict d that has the key k
DictGet(d, k) == LET i == CHOOSE j \in 1..Len(d.v) : d.v[j][1] = k IN d.v[i][2]

DictKeys(d) == [j \in 1..Len(d.v) |-> d.v[j][1]]

HasKey(d, k) == \E j \in 1..Len(d.v) : d.v[j][1] = k

(***************************************************************************)
(* String literals of the source                                           *)
(***************************************************************************)
NA == <<"N", "/", "A">>

K_DB_HOST == "DB_HOST"

K_DB_PORT == "DB_PORT"

K_DATA_BUCKET == "DATA_BUCKET"

K_DEPLOYMENT_BUCKET == "DEPLOYMENT_BUCKET"

K_AWS_REGION == "AWS_REGION"

EnvNames == {K_DB_HOST, K_DB_PORT, K_DATA_BUCKET, K_DEPLOYMENT_BUCKET, K_AWS_REGION}

S_message == <<"m","e","s","s","a","g","e">>

S_timestamp == <<"t","i","m","e","s","t","a","m","p">>

S_function_info == <<"f","u","n","c","t","i","o","n","_","i","n","f","o">>

S_name == <<"n","a","m","e">>

S_memory_limit == <<"m","e","m","o","r","y","_","l","i","m","i","t">>

S_request_id == <<"r","e","q","u","e","s","t","_","i","d">>

S_environment_variables ==
    <<"e","n","v","i","r","o","n","m","e","n","t","_","v","a","r","i","a","b","l","e","s">>

S_database == <<"d","a","t","a","b","a","s","e">>

S_host == <<"h","o","s","t">>

S_port == <<"p","o","r","t">>

S_buckets == <<"b","u","c","k","e","t","s">>

S_data_bucket == <<"d","a","t","a","_","b","u","c","k","e","t">>

S_deployment_bucket ==
    <<"d","e","p","l","o","y","m","e","n","t","_","b","u","c","k","e","t">>

S_vpc_info == <<"v","p","c","_","i","n","f","o">>

S_region == <<"r","e","g","i","o","n">>

S_ContentType == <<"C","o","n","t","e","n","t","-","T","y","p","e">>

S_application_json ==
    <<"a","p","p","l","i","c","a","t","i","o","n","/","j","s","o","n">>

S_Hello ==
    <<"H","e","l","l","o"," ","W","o","r","l","d"," ","f","r","o","m"," ",
      "L","a","m","b","d","a"," ","w","i","t","h"," ",
      "E","n","v","i","r","o","n","m","e","n","t"," ",
      "V","a","r","i","a","b","l","e","s","!">>

(***************************************************************************)
(* json.dumps: the encoder with its default arguments                      *)
(***************************************************************************)
Digits == <<"0", "1", "2", "3", "4", "5", "6", "7", "8", "9">>

DigitChar(d) == Digits[d + 1]

IsDigit(c) == \E d \in 1..10 : Digits[d] = c

DigitVal(c) == (CHOOSE d \in 1..10 : Digits[d] = c) - 1

RECURSIVE NatToStr(_)
NatToStr(n) == IF n < 10 THEN <<DigitChar(n)>>
               ELSE NatToStr(n \div 10) \o <<DigitChar(n % 10)>>

\* str(int)
IntToStr(n) == IF n < 0 THEN <<"-">> \o NatToStr(0 - n) ELSE NatToStr(n)

\* the replacement json.encoder makes for one character
EscapeChar(c) ==
    CASE c = "\"" -> <<"\\", "\"">>
      [] c = "\\" -> <<"\\", "\\">>
      [] c = "\n" -> <<"\\", "n">>
      [] c = "\t" -> <<"\\", "t">>
      [] OTHER    -> <<c>>

RECURSIVE EscapeFrom(_, _)
EscapeFrom(s, i) == IF i > Len(s) THEN <<>>
                    ELSE EscapeChar(s[i]) \o EscapeFrom(s, i + 1)

\* the text of s with every character replaced; s itself when none changes
EscapeStr(s) == IF \A i \in 1..Len(s) : EscapeChar(s[i]) = <<s[i]>> THEN s
                ELSE EscapeFrom(s, 1)

\* json.encoder.py_encode_basestring_ascii
EncodeStr(s) == <<"\"">> \o EscapeStr(s) \o <<"\"">>

\* whether json.dumps(o) returns; it raises TypeError otherwise
RECURSIVE Serializable(_)
Serializable(o) ==
    CASE o.t = "str"      -> TRUE
      [] o.t = "int"      -> TRUE
      [] o.t = "NoneType" -> TRUE
      [] o.t = "dict"     -> \A j \in 1..Len(o.v) : Serializable(o.v[j][2])
      [] OTHER            -> FALSE

RECURSIVE JsonDumps(_), DumpItems(_, _)
\* the items of a dict from the j-th on, joined by the item separator ', '
DumpItems(items, j) ==
    IF j > Len(items) THEN <<>>
    ELSE (IF j > 1 THEN <<",", " ">> ELSE <<>>)
         \o EncodeStr(items[j][1]) \o <<":", " ">> \o JsonDumps(items[j][2])
         \o DumpItems(items, j + 1)

JsonDumps(o) ==
    CASE o.t = "str"      -> EncodeStr(o.v)
      [] o.t = "int"      -> IntToStr(o.v)
      [] o.t = "NoneType" -> <<"n", "u", "l", "l">>
      [] o.t = "dict"     -> <<"{">> \o DumpItems(o.v, 1) \o <<"}">>

(***************************************************************************)
(* json.loads: the decoder                                                 *)
(***************************************************************************)
\* the result of a parsing step: the value and the index after it
Parsed(val, next) == [ok |-> TRUE, val |-> val, next |-> next]

ParseError == [ok |-> FALSE, val |-> PyNone, next |-> 0]

IsWs(c) == c \in {" ", "\n", "\t", "\r"}

RECURSIVE SkipWs(_, _)
SkipWs(s, i) == IF i <= Len(s) /\ IsWs(s[i]) THEN SkipWs(s, i + 1) ELSE i

\* the character an escape sequence \c stands for
UnescapeChar(c) ==
    CASE c = "\"" -> "\""
      [] c = "\\" -> "\\"
      [] c = "/"  -> "/"
      [] c = "n"  -> "\n"
      [] c = "t"  -> "\t"
      [] c = "r"  -> "\r"
      [] OTHER    -> ""

\* whether the character at p, inside the string literal that starts at i,
\* follows an odd run of backslashes, that is, is the second half of an escape
Escaped(s, i, p) ==
    /\ p > i
    /\ s[p - 1] = "\\"
    /\ LET k == CHOOSE k \in (i - 1)..(p - 1) :
                    /\ \A l \in (k + 1)..(p - 1) : s[l] = "\\"
                    /\ k = i - 1 \/ s[k] # "\\"
       IN  (p - 1 - k) % 2 = 1

\* whether the literal that starts at i ends with the quote at j
ClosesAt(s, i, j) ==
    /\ s[j] = "\"" /\ ~Escaped(s, i, j)
    /\ \A q \in i..(j - 1) : ~(s[q] = "\"" /\ ~Escaped(s, i, q))

\* the text of the literal s[i..j-1], its escapes replaced
Unescaped(s, i, j) ==
    IF \A p \in i..(j - 1) : s[p] # "\\" THEN SubSeq(s, i, j - 1)
    ELSE LET kept == {p \in i..(j - 1) : ~(s[p] = "\\" /\ ~Escaped(s, i, p))}
             at(n) == CHOOSE p \in kept : Cardinality({q \in kept : q <= p}) = n
         IN  [n \in 1..Cardinality(kept) |->
                 IF Escaped(s, i, at(n)) THEN UnescapeChar(s[at(n)]) ELSE s[at(n)]]

\* json.decoder.py_scanstring from index i, just after the opening quote:
\* the text up to the first quote no backslash escapes
ScanString(s, i) ==
    IF ~\E j \in i..Len(s) : ClosesAt(s, i, j) THEN ParseError
    ELSE LET j == CHOOSE j \in i..Len(s) : ClosesAt(s, i, j)
         IN  IF \E p \in i..(j - 1) :
                    \/ ~Escaped(s, i, p) /\ s[p] \in {"\n", "\t", "\r"}
                    \/ Escaped(s, i, p) /\ UnescapeChar(s[p]) = ""
             THEN ParseError
             ELSE Parsed(Unescaped(s, i, j), j + 1)

RECURSIVE ScanDigits(_, _, _)
ScanDigits(s, i, n) ==
    IF i <= Len(s) /\ IsDigit(s[i]) THEN ScanDigits(s, i + 1, 10 * n + DigitVal(s[i]))
    ELSE Parsed(n, i)

\* an integer literal at index i
ScanNumber(s, i) ==
    LET neg == s[i] = "-"
        j   == IF neg THEN i + 1 ELSE i
    IN  IF j > Len(s) \/ ~IsDigit(s[j]) THEN ParseError
        ELSE LET r == ScanDigits(s, j, 0)
             IN  Parsed(PyInt(IF neg THEN 0 - r.val ELSE r.val), r.next)

IsPrefixAt(s, i, p) ==
    /\ i + Len(p) - 1 <= Len(s)
    /\ \A k \in 1..Len(p) : s[i + k - 1] = p[k]

RECURSIVE ScanValue(_, _), ScanMembers(_, _, _)
\* the members of an object from index i on, acc the pairs read so far
ScanMembers(s, i, acc) ==
    LET a == SkipWs(s, i)
    IN  IF a > Len(s) \/ s[a] # "\"" THEN ParseError
        ELSE LET k == ScanString(s, a + 1)
             IN  IF ~k.ok THEN ParseError
                 ELSE LET c == SkipWs(s, k.next)
                      IN  IF c > Len(s) \/ s[c] # ":" THEN ParseError
                          ELSE LET x == ScanValue(s, SkipWs(s, c + 1))
                               IN  IF ~x.ok THEN ParseError
                                   ELSE LET e    == SkipWs(s, x.next)
                                            acc2 == Append(acc, <<k.val, x.val>>)
                                        IN  IF e > Len(s) THEN ParseError
                                            ELSE IF s[e] = "}"
                                                 THEN Parsed(PyDict(acc2), e + 1)
                                            ELSE IF s[e] = ","
                                                 THEN ScanMembers(s, e + 1, acc2)
                                            ELSE ParseError

\* json.scanner.py_make_scanner's _scan_once
ScanValue(s, i) ==
    IF i > Len(s) THEN ParseError
    ELSE IF s[i] = "\"" THEN
         LET r == ScanString(s, i + 1)
         IN  IF r.ok THEN Parsed(PyStr(r.val), r.next) ELSE ParseError
    ELSE IF s[i] = "{" THEN
         LET a == SkipWs(s, i + 1)
         IN  IF a <= Len(s) /\ s[a] = "}" THEN Parsed(PyDict(<<>>), a + 1)
             ELSE ScanMembers(s, i + 1, <<>>)
    ELSE IF IsPrefixAt(s, i, <<"n", "u", "l", "l">>) THEN Parsed(PyNone, i + 4)
    ELSE IF s[i] = "-" \/ IsDigit(s[i]) THEN ScanNumber(s, i)
    ELSE ParseError

\* json.loads(s); JSONDecodeError is the result [ok |-> FALSE, ...]
JsonLoads(s) ==
    LET r == ScanValue(s, SkipWs(s, 1))
    IN  IF r.ok /\ SkipWs(s, r.next) = Len(s) + 1 THEN r ELSE ParseError

(***************************************************************************)
(* datetime: now(timezone.utc), isoformat(), fromisoformat()               *)
(***************************************************************************)
\* a reading of the wall clock, in UTC
WallTime(y, mo, d, h, mi, sec, us) ==
    [year |-> y, month |-> mo, day |-> d, hour |-> h, minute |-> mi,
     second |-> sec, microsecond |-> us]

\* an aware datetime: the fields and the offset of its tzinfo, in minutes
Datetime(w, offset) ==
    [year |-> w.year, month |-> w.month, day |-> w.day, hour |-> w.hour,
     minute |-> w.minute, second |-> w.second, microsecond |-> w.microsecond,
     aware |-> TRUE, utcoffset |-> offset]

\* timezone.utc
TimezoneUtc == 0

\* datetime.utcnow() in its place: the same fields, and no tzinfo
DatetimeNow_Naive(tz, w) ==
    [year |-> w.year, month |-> w.month, day |-> w.day, hour |-> w.hour,
     minute |-> w.minute, second |-> w.second, microsecond |-> w.microsecond,
     aware |-> FALSE, utcoffset |-> 0]

\* datetime.now(tz): the wall clock's UTC reading w shifted into tz; the
\* handler passes timezone.utc, whose offset is zero, so no field shifts
DatetimeNow(tz, w) == Datetime(w, tz)

RECURSIVE ZeroPad(_, _)
\* '%0<width>d' % n for n >= 0
ZeroPad(n, width) ==
    IF width <= 1 THEN NatToStr(n)
    ELSE IF n < 10 THEN <<"0">> \o ZeroPad(n, width - 1)
    ELSE ZeroPad(n \div 10, width - 1) \o <<DigitChar(n % 10)>>

\* datetime._format_offset
FormatOffset(off) ==
    LET a == IF off < 0 THEN 0 - off ELSE off
    IN  <<IF off < 0 THEN "-" ELSE "+">>
        \o ZeroPad(a \div 60, 2) \o <<":">> \o ZeroPad(a % 60, 2)

\* datetime.isoformat() with sep='T', timespec='auto'
Isoformat(dt) ==
    ZeroPad(dt.year, 4) \o <<"-">> \o ZeroPad(dt.month, 2) \o <<"-">>
    \o ZeroPad(dt.day, 2) \o <<"T">>
    \o ZeroPad(dt.hour, 2) \o <<":">> \o ZeroPad(dt.minute, 2) \o <<":">>
    \o ZeroPad(dt.second, 2)
    \o (IF dt.microsecond # 0 THEN <<".">> \o ZeroPad(dt.microsecond, 6) ELSE <<>>)
    \o (IF dt.aware THEN FormatOffset(dt.utcoffset) ELSE <<>>)

AllDigits(s, i, width) ==
    /\ i + width - 1 <= Len(s)
    /\ \A k \in i..(i + width - 1) : IsDigit(s[k])

\* int(s[i : i + width])
FixedInt(s, i, width) == ScanDigits(SubSeq(s, i, i + width - 1), 1, 0).val

IsLeap(y) == (y % 4 = 0 /\ y % 100 # 0) \/ y % 400 = 0

DaysInMonth(y, m) ==
    IF m = 2 THEN (IF IsLeap(y) THEN 29 ELSE 28)
    ELSE IF m \in {4, 6, 9, 11} THEN 30 ELSE 31

CharAt(s, i, c) == i <= Len(s) /\ s[i] = c

NoDatetime ==
    [year |-> 0, month |-> 0, day |-> 0, hour |-> 0, minute |-> 0, second |-> 0,
     microsecond |-> 0, aware |-> FALSE, utcoffset |-> 0]

\* datetime.fromisoformat(s) for the forms isoformat() writes:
\* YYYY-MM-DDTHH:MM:SS[.ffffff][+HH:MM]; ValueError is ok |-> FALSE
FromIsoformat(s) ==
    LET shape == /\ AllDigits(s, 1, 4) /\ CharAt(s, 5, "-")
                 /\ AllDigits(s, 6, 2) /\ CharAt(s, 8, "-")
                 /\ AllDigits(s, 9, 2) /\ CharAt(s, 11, "T")
                 /\ AllDigits(s, 12, 2) /\ CharAt(s, 14, ":")
                 /\ AllDigits(s, 15, 2) /\ CharAt(s, 17, ":")
                 /\ AllDigits(s, 18, 2)
        frac  == CharAt(s, 20, ".")
        t     == IF frac THEN 27 ELSE 20
        ftok  == frac => AllDigits(s, 21, 6)
        naive == Len(s) = t - 1
        tzok  == /\ Len(s) = t + 5
                 /\ s[t] \in {"+", "-"}
                 /\ AllDigits(s, t + 1, 2) /\ s[t + 3] = ":"
                 /\ AllDigits(s, t + 4, 2)
    IN  IF ~(shape /\ ftok /\ (naive \/ tzok)) THEN [ok |-> FALSE, val |-> NoDatetime]
        ELSE LET y   == FixedInt(s, 1, 4)
                 mo  == FixedInt(s, 6, 2)
                 d   == FixedInt(s, 9, 2)
                 h   == FixedInt(s, 12, 2)
                 mi  == FixedInt(s, 15, 2)
                 sec == FixedInt(s, 18, 2)
                 us  == IF frac THEN FixedInt(s, 21, 6) ELSE 0
                 oh  == IF naive THEN 0 ELSE FixedInt(s, t + 1, 2)
                 om  == IF naive THEN 0 ELSE FixedInt(s, t + 4, 2)
                 off == IF naive THEN 0
                        ELSE IF s[t] = "-" THEN 0 - (60 * oh + om) ELSE 60 * oh + om
                 inrange == /\ y >= 1 /\ mo \in 1..12 /\ d >= 1
                            /\ d <= DaysInMonth(y, mo)
                            /\ h <= 23 /\ mi <= 59 /\ sec <= 59
                            /\ oh <= 23 /\ om <= 59
             IN  IF ~inrange THEN [ok |-> FALSE, val |-> NoDatetime]
                 ELSE [ok |-> TRUE,
                       val |-> [year |-> y, month |-> mo, day |-> d, hour |-> h,
                                minute |-> mi, second |-> sec, microsecond |-> us,
                                aware |-> ~naive, utcoffset |-> off]]

(***************************************************************************)
(* os.environ                                                              *)
(***************************************************************************)
\* os.environ.get(key) in its place: the default is dropped
EnvironGet_NoDefault(env, key, default) ==
    IF key \in DOMAIN env THEN PyStr(env[key]) ELSE PyNone

\* os.environ.get(key) or default in its place: an empty value counts as unset
EnvironGet_OrDefault(env, key, default) ==
    IF key \in DOMAIN env /\ env[key] # <<>> THEN PyStr(env[key]) ELSE default

\* os.environ.get(key, default): the value as a str, or the default
EnvironGet(env, key, default) ==
    IF key \in DOMAIN env THEN PyStr(env[key]) ELSE default

\* os.environ[key] = value
EnvironSet(env, key, value) ==
    [k \in (DOMAIN env) \cup {key} |-> IF k = key THEN value ELSE env[k]]

(***************************************************************************)
(* lambda_handler                                                          *)
(***************************************************************************)
S_statusCode == <<"s","t","a","t","u","s","C","o","d","e">>

S_headers == <<"h","e","a","d","e","r","s">>

S_body == <<"b","o","d","y">>

\* str(context.memory_limit_in_mb) in its place
FunctionInfo_MemoryAsStr(context) ==
    PyDict(<<
      <<S_name, context.function_name>>,
      <<S_memory_limit,
        IF context.memory_limit_in_mb.t = "int"
        THEN PyStr(IntToStr(context.memory_limit_in_mb.v))
        ELSE context.memory_limit_in_mb>>,
      <<S_request_id, context.aws_request_id>> >>)

\* the dict under 'function_info'
FunctionInfo(context) ==
    PyDict(<<
      <<S_name, context.function_name>>,
      <<S_memory_limit, context.memory_limit_in_mb>>,
      <<S_request_id, context.aws_request_id>> >>)

\* os.environ.get('AWS_REGION', 'N/A') in its place
VpcInfo_Placeholder(env) ==
    PyDict(<< <<S_region, EnvironGet(env, K_AWS_REGION, PyStr(NA))>> >>)

\* the dict under 'vpc_info'
VpcInfo(env) ==
    PyDict(<< <<S_region, EnvironGet(env, K_AWS_REGION, PyNone)>> >>)

\* the object handed to json.dumps
BodyObject(context, env, now) ==
    LET db_host           == EnvironGet(env, K_DB_HOST, PyStr(NA))
        db_port           == EnvironGet(env, K_DB_PORT, PyStr(NA))
        data_bucket       == EnvironGet(env, K_DATA_BUCKET, PyStr(NA))
        deployment_bucket == EnvironGet(env, K_DEPLOYMENT_BUCKET, PyStr(NA))
    IN  PyDict(<<
          <<S_message, PyStr(S_Hello)>>,
          <<S_timestamp, PyStr(Isoformat(DatetimeNow(TimezoneUtc, now)))>>,
          <<S_function_info, FunctionInfo(context)>>,
          <<S_environment_variables, PyDict(<<
              <<S_database, PyDict(<<
                  <<S_host, db_host>>,
                  <<S_port, db_port>> >>)>>,
              <<S_buckets, PyDict(<<
                  <<S_data_bucket, data_bucket>>,
                  <<S_deployment_bucket, deployment_bucket>> >>)>> >>)>>,
          <<S_vpc_info, VpcInfo(env)>> >>)

\* 'statusCode': '200' in its place
Response_StatusAsStr(body) ==
    PyDict(<<
      <<S_statusCode, PyStr(<<"2", "0", "0">>)>>,
      <<S_headers, PyDict(<< <<S_ContentType, PyStr(S_application_json)>> >>)>>,
      <<S_body, PyStr(body)>> >>)

\* the dict the handler returns, given the serialized body
Response(body) ==
    PyDict(<<
      <<S_statusCode, PyInt(200)>>,
      <<S_headers, PyDict(<< <<S_ContentType, PyStr(S_application_json)>> >>)>>,
      <<S_body, PyStr(body)>> >>)

\* a handler that answers 400 to an event that is no dict
LambdaHandler_ValidatesEvent(event, context, env, now) ==
    LET obj == BodyObject(context, env, now)
    IN  IF ~Serializable(obj)
        THEN [raised |-> TRUE, exc |-> "TypeError", ret |-> PyNone,
              environ |-> env, event |-> event, context |-> context]
        ELSE [raised |-> FALSE, exc |-> "",
              ret |-> PyDict(<<
                  <<S_statusCode, PyInt(IF event.t = "dict" THEN 200 ELSE 400)>>,
                  <<S_headers,
                    PyDict(<< <<S_ContentType, PyStr(S_application_json)>> >>)>>,
                  <<S_body, PyStr(JsonDumps(obj))>> >>),
              environ |-> env, event |-> event, context |-> context]

\* a handler that reads os.environ['DB_HOST']: KeyError when it is unset
LambdaHandler_IndexesEnviron(event, context, env, now) ==
    LET obj == BodyObject(context, env, now)
    IN  IF K_DB_HOST \notin DOMAIN env
        THEN [raised |-> TRUE, exc |-> "KeyError", ret |-> PyNone,
              environ |-> env, event |-> event, context |-> context]
        ELSE IF Serializable(obj)
        THEN [raised |-> FALSE, exc |-> "", ret |-> Response(JsonDumps(obj)),
              environ |-> env, event |-> event, context |-> context]
        ELSE [raised |-> TRUE, exc |-> "TypeError", ret |-> PyNone,
              environ |-> env, event |-> event, context |-> context]

\* a handler that reads with os.environ.setdefault(key, 'N/A'), which stores
\* the default under a name that is unset
LambdaHandler_Setdefault(event, context, env, now) ==
    LET obj   == BodyObject(context, env, now)
        after == [k \in (DOMAIN env) \cup {K_DB_HOST, K_DB_PORT, K_DATA_BUCKET,
                                           K_DEPLOYMENT_BUCKET} |->
                     IF k \in DOMAIN env THEN env[k] ELSE NA]
    IN  IF Serializable(obj)
        THEN [raised |-> FALSE, exc |-> "", ret |-> Response(JsonDumps(obj)),
              environ |-> after, event |-> event, context |-> context]
        ELSE [raised |-> TRUE, exc |-> "TypeError", ret |-> PyNone,
              environ |-> after, event |-> event, context |-> context]

\* One call of lambda_handler(event, context) with the process environment
\* env and the clock reading now.  The outcome: whether an exception left
\* the call and which, the value returned, and the environment, the event
\* and the context as the call leaves them.
LambdaHandler(event, context, env, now) ==
    LET obj == BodyObject(context, env, now)
    IN  IF Serializable(obj)
        THEN [raised |-> FALSE, exc |-> "", ret |-> Response(JsonDumps(obj)),
              environ |-> env, event |-> event, context |-> context]
        ELSE [raised |-> TRUE, exc |-> "TypeError", ret |-> PyNone,
              environ |-> env, event |-> event, context |-> context]

(***************************************************************************)
(* The local test code: its literals and its mock context                  *)
(***************************************************************************)
S_localhost ==
    <<"l","o","c","a","l","h","o","s","t">>

S_5432 ==
    <<"5","4","3","2">>

S_test_data_bucket ==
    <<"t","e","s","t","-","d","a","t","a","-","b","u","c","k","e","t">>

S_test_deployment_bucket ==
    <<"t","e","s","t","-","d","e","p","l","o","y","m","e","n","t","-","b",
      "u","c","k","e","t">>

S_us_east_2 ==
    <<"u","s","-","e","a","s","t","-","2">>

S_mock_function_name ==
    <<"m","y","-","l","o","c","a","l","-","h","e","l","l","o","-","w","o",
      "r","l","d","-","f","u","n","c","t","i","o","n">>

S_mock_request_id ==
    <<"t","e","s","t","-","r","e","q","u","e","s","t","-","i","d","-","1",
      "2","3","4","5">>

S_mock_arn ==
    <<"a","r","n",":","a","w","s",":","l","a","m","b","d","a",":","u","s",
      "-","e","a","s","t","-","2",":","1","2","3","4","5","6","7","8","9",
      "0","1","2",":","f","u","n","c","t","i","o","n",":","t","e","s","t",
      "-","f","u","n","c","t","i","o","n">>

MockContext ==
    [function_name        |-> PyStr(S_mock_function_name),
     memory_limit_in_mb   |-> PyInt(256),
     aws_request_id       |-> PyStr(S_mock_request_id),
     invoked_function_arn |-> PyStr(S_mock_arn)]

\* the event the test code passes: {}
EmptyEvent == PyDict(<<>>)

(***************************************************************************)
(* The inputs of the model                                                 *)
(***************************************************************************)
\* the mock context behind another ARN: the three fields read are the same
RehostedContext ==
    [function_name        |-> PyStr(S_mock_function_name),
     memory_limit_in_mb   |-> PyInt(256),
     aws_request_id       |-> PyStr(S_mock_request_id),
     invoked_function_arn |-> PyStr(<<"a", "r", "n", ":", "2">>)]

\* a context of the hosting platform: other values in every field
PlatformContext ==
    [function_name        |-> PyStr(<<"f", "n">>),
     memory_limit_in_mb   |-> PyInt(1024),
     aws_request_id       |-> PyStr(<<"r", "-", "7">>),
     invoked_function_arn |-> PyStr(<<"a", "r", "n", ":", "f", "n">>)]

\* a context whose memory limit is an object json cannot encode
OpaqueContext ==
    [function_name        |-> PyStr(S_mock_function_name),
     memory_limit_in_mb   |-> PyObject,
     aws_request_id       |-> PyStr(S_mock_request_id),
     invoked_function_arn |-> PyStr(S_mock_arn)]

Contexts == {MockContext, RehostedContext, PlatformContext, OpaqueContext}

\* the contexts one process sees while it serves one function
ServingContexts == {MockContext, RehostedContext, OpaqueContext}

\* the three attributes of a context the handler reads
ReadFields(context) ==
    <<context.function_name, context.memory_limit_in_mb, context.aws_request_id>>

\* an event that is no mapping at all
MalformedEvent == PyStr(<<"{", "\"">>)

Events == {EmptyEvent, MalformedEvent}

\* a value with the characters json escapes
S_escapes == <<"a", "\"", "\\", "\n">>

\* the empty string, the placeholder's own text, and the escapes
EnvValues == {<<>>, NA, S_escapes}

\* clock readings: with no microseconds and with some
Clock == {WallTime(2025, 1, 2, 3, 4, 5, 0), WallTime(2024, 2, 29, 23, 59, 59, 678)}

EmptyEnv == [k \in {} |-> <<>>]

\* every environment over the five names
AllEnvs == UNION {[D -> EnvValues] : D \in SUBSET EnvNames}

\* the environments a serving process starts with: nothing set, every name
\* set, and some names set
InitEnvs ==
    {EmptyEnv,
     [k \in EnvNames |-> NA],
     [k \in {K_DB_PORT, K_AWS_REGION} |-> IF k = K_DB_PORT THEN S_escapes ELSE <<>>]}

(***************************************************************************)
(* A process that calls the handler again and again                        *)
(***************************************************************************)
\* The part of an earlier call that is kept for comparison with the next.
Twin(e) == [event |-> e.event, context |-> e.context, now |-> e.now,
            raised |-> e.raised, exc |-> e.exc, ret |-> e.ret]

\* The record of one call: its inputs, its outcome, the environment and its
\* arguments as the call left them, and in twin the call made just before it
\* when that call had the same environment and read the same three fields.
LogEntry(event, context, env, now, r, before) ==
    [event |-> event, context |-> context, environ |-> env, now |-> now,
     raised |-> r.raised, exc |-> r.exc, ret |-> r.ret,
     environ_after |-> r.environ, event_after |-> r.event,
     context_after |-> r.context,
     twin |-> IF before # <<>> /\ before[1].environ = env
                 /\ ReadFields(before[1].context) = ReadFields(context)
              THEN <<Twin(before[1])>> ELSE <<>>]

\* a caller calls lambda_handler(event, context)
Invoke(event, context, now) ==
    /\ pc = "serving"
    /\ LET r == LambdaHandler(event, context, environ, now)
       IN  /\ environ' = r.environ
           /\ last' = <<LogEntry(event, context, environ, now, r, last)>>
    /\ UNCHANGED <<pc, response, response_body_parsed, pretty_response>>

\* the environment lines 44-48 leave behind
MainEnv ==
    [k \in EnvNames |->
        CASE k = K_DB_HOST           -> S_localhost
          [] k = K_DB_PORT           -> S_5432
          [] k = K_DATA_BUCKET       -> S_test_data_bucket
          [] k = K_DEPLOYMENT_BUCKET -> S_test_deployment_bucket
          [] k = K_AWS_REGION        -> S_us_east_2]

\* the five assignments of lines 44-48, made between two calls
Setup ==
    /\ pc = "serving"
    /\ environ' =
         EnvironSet(EnvironSet(EnvironSet(EnvironSet(EnvironSet(environ,
             K_DB_HOST, S_localhost),
             K_DB_PORT, S_5432),
             K_DATA_BUCKET, S_test_data_bucket),
             K_DEPLOYMENT_BUCKET, S_test_deployment_bucket),
             K_AWS_REGION, S_us_east_2)
    /\ UNCHANGED <<last, pc, response, response_body_parsed, pretty_response>>

Serve == \E event \in Events, context \in ServingContexts, now \in Clock :
             Invoke(event, context, now)

Init ==
    /\ environ \in InitEnvs
    /\ last = <<>>
    /\ pc = "serving"
    /\ response = PyNone
    /\ response_body_parsed = PyNone
    /\ pretty_response = PyNone

Next == Serve \/ Setup

Spec == Init /\ [][Next]_vars

(***************************************************************************)
(* One call, from every environment and with every context                 *)
(***************************************************************************)
InitCall ==
    /\ environ \in AllEnvs
    /\ last = <<>>
    /\ pc = "serving"
    /\ response = PyNone
    /\ response_body_parsed = PyNone
    /\ pretty_response = PyNone

CallOnce ==
    /\ last = <<>>
    /\ \E event \in Events, context \in Contexts, now \in Clock :
           Invoke(event, context, now)

NextCall == CallOnce

SpecCall == InitCall /\ [][NextCall]_vars

(***************************************************************************)
(* The local test code, lines 43-65                                        *)
(***************************************************************************)
\* a statement os.environ[key] = value at program location at
MainSetenv(at, key, value, to) ==
    /\ pc = at
    /\ environ' = EnvironSet(environ, key, value)
    /\ pc' = to
    /\ UNCHANGED <<last, response, response_body_parsed, pretty_response>>

\* line 44 with the name misspelt
Main44_WrongName == MainSetenv("l44", "DB_HOSTNAME", S_localhost, "l45")

Main44 == MainSetenv("l44", K_DB_HOST, S_localhost, "l45")

Main45 == MainSetenv("l45", K_DB_PORT, S_5432, "l46")

Main46 == MainSetenv("l46", K_DATA_BUCKET, S_test_data_bucket, "l47")

Main47 == MainSetenv("l47", K_DEPLOYMENT_BUCKET, S_test_deployment_bucket, "l48")

Main48 == MainSetenv("l48", K_AWS_REGION, S_us_east_2, "l57")

\* response = lambda_handler({}, MockContext())
Main57 ==
    /\ pc = "l57"
    /\ \E now \in Clock :
         LET r == LambdaHandler(EmptyEvent, MockContext, environ, now)
         IN  /\ environ' = r.environ
             /\ response' = r.ret
             /\ pc' = IF r.raised THEN "traceback" ELSE "l58"
    /\ UNCHANGED <<last, response_body_parsed, pretty_response>>

\* response_body_parsed = json.loads(response['body'])
Main58 ==
    /\ pc = "l58"
    /\ LET r == JsonLoads(DictGet(response, S_body).v)
       IN  /\ response_body_parsed' = r.val
           /\ pc' = IF r.ok THEN "l59" ELSE "traceback"
    /\ UNCHANGED <<environ, last, response, pretty_response>>

\* pretty_response = {...}; print(json.dumps(pretty_response, indent=2))
Main59 ==
    /\ pc = "l59"
    /\ pretty_response' = PyDict(<<
           <<S_statusCode, DictGet(response, S_statusCode)>>,
           <<S_headers, DictGet(response, S_headers)>>,
           <<S_body, response_body_parsed>> >>)
    /\ pc' = "done"
    /\ UNCHANGED <<environ, last, response, response_body_parsed>>

\* the script inherits any environment
InitMain ==
    /\ environ \in AllEnvs
    /\ last = <<>>
    /\ pc = "l44"
    /\ response = PyNone
    /\ response_body_parsed = PyNone
    /\ pretty_response = PyNone

NextMain == Main44 \/ Main45 \/ Main46 \/ Main47 \/ Main48 \/ Main57 \/ Main58 \/ Main59

SpecMain == InitMain /\ [][NextMain]_vars

(***************************************************************************)
(* Reading a response                                                      *)
(***************************************************************************)
\* what a lookup gives when the key, or the dict, is not there
Missing == [t |-> "missing", v |-> <<>>]

\* d.get(k)
Get(d, k) == IF d.t = "dict" /\ HasKey(d, k) THEN DictGet(d, k) ELSE Missing

\* json.loads(response['body']) of a returned response, Missing if it fails
BodyOf(ret) ==
    LET text == Get(ret, S_body)
    IN  IF text.t # "str" THEN Missing
        ELSE LET r == JsonLoads(text.v) IN IF r.ok THEN r.val ELSE Missing

Host(b) == Get(Get(Get(b, S_environment_variables), S_database), S_host)

Port(b) == Get(Get(Get(b, S_environment_variables), S_database), S_port)

DataBucket(b) == Get(Get(Get(b, S_environment_variables), S_buckets), S_data_bucket)

DeploymentBucket(b) ==
    Get(Get(Get(b, S_environment_variables), S_buckets), S_deployment_bucket)

Region(b) == Get(Get(b, S_vpc_info), S_region)

\* the body field that shows the environment variable key
EnvField(b, key) ==
    CASE key = K_DB_HOST           -> Host(b)
      [] key = K_DB_PORT           -> Port(b)
      [] key = K_DATA_BUCKET       -> DataBucket(b)
      [] key = K_DEPLOYMENT_BUCKET -> DeploymentBucket(b)
      [] key = K_AWS_REGION        -> Region(b)

\* the four names whose fields have the placeholder as their default
PlaceholderNames == {K_DB_HOST, K_DB_PORT, K_DATA_BUCKET, K_DEPLOYMENT_BUCKET}

RECURSIVE Leaves(_), LeavesFrom(_, _)
\* the values of a (nested) dict that are no dicts, in order
LeavesFrom(items, j) ==
    IF j > Len(items) THEN <<>>
    ELSE Leaves(items[j][2]) \o LeavesFrom(items, j + 1)

Leaves(o) == IF o.t = "dict" THEN LeavesFrom(o.v, 1) ELSE <<o>>

RECURSIVE Shape(_)
\* the keys of a (nested) dict, the values left out
Shape(o) ==
    IF o.t = "dict" THEN [j \in 1..Len(o.v) |-> <<o.v[j][1], Shape(o.v[j][2])>>]
    ELSE <<>>

\* a body without its timestamp
StripTimestamp(b) ==
    IF b.t # "dict" THEN b
    ELSE PyDict(SelectSeq(b.v, LAMBDA item : item[1] # S_timestamp))

\* the calls on record: the last one, if any
Calls == {last[i] : i \in 1..Len(last)}

\* the calls on record that returned
Returns == {e \in Calls : ~e.raised}

(***************************************************************************)
(* Properties                                                              *)
(***************************************************************************)
\* what the environment shows in a body field: the value of a name that is
\* set, the given default of one that is not
Shown(env, key, default) == IF key \in DOMAIN env THEN PyStr(env[key]) ELSE default

\* C1 as stated: whenever none of the five names is set, the body has five
\* configuration fields, each of them the placeholder 'N/A', and the region
\* field is null.
C1_FivePlaceholders ==
    \A e \in Returns :
        DOMAIN e.environ = {} =>
            LET b     == BodyOf(e.ret)
                conf  == Leaves(Get(b, S_environment_variables))
            IN  /\ Len(conf) = 5
                /\ \A i \in 1..Len(conf) : conf[i] = PyStr(NA)
                /\ Region(b) = PyNone

\* C1 as amended: whenever none of the five names is set, the body has four
\* configuration fields (database.host, database.port, buckets.data_bucket,
\* buckets.deployment_bucket), each of them the placeholder 'N/A', and
\* vpc_info.region is null.
C1_FourPlaceholders ==
    \A e \in Returns :
        DOMAIN e.environ = {} =>
            LET b     == BodyOf(e.ret)
                conf  == Leaves(Get(b, S_environment_variables))
            IN  /\ Len(conf) = 4
                /\ \A key \in PlaceholderNames : EnvField(b, key) = PyStr(NA)
                /\ \A i \in 1..Len(conf) : conf[i] = PyStr(NA)
                /\ Region(b) = PyNone

\* a call has returned with none of the five names set
C1_Witness ==
    \E e \in Returns : DOMAIN e.environ = {} /\ Host(BodyOf(e.ret)) = PyStr(NA)

\* C2: every one of the five names that is set, to the empty string too,
\* shows in its body field as exactly its value.
C2_SetValuesShown ==
    \A e \in Returns :
        LET b == BodyOf(e.ret)
        IN  \A key \in EnvNames :
                key \in DOMAIN e.environ => EnvField(b, key) = PyStr(e.environ[key])

\* a call has returned with all five names set, among them the empty
\* string, the placeholder's text and a value json escapes
C2_Witness ==
    \E e \in Returns :
        /\ DOMAIN e.environ = EnvNames
        /\ e.environ[K_DB_HOST] = S_escapes
        /\ e.environ[K_DB_PORT] = <<>>
        /\ e.environ[K_AWS_REGION] = NA
        /\ Host(BodyOf(e.ret)) = PyStr(S_escapes)

\* C3: every response returned, whatever the event, the context, the
\* environment and the calls before it, has statusCode 200 and the headers
\* {"Content-Type": "application/json"}.
C3_StatusAndHeaders ==
    \A e \in Returns :
        /\ Get(e.ret, S_statusCode) = PyInt(200)
        /\ Get(e.ret, S_headers) =
               PyDict(<< <<S_ContentType, PyStr(S_application_json)>> >>)

\* a call with a malformed event has returned after an earlier call and
\* after the environment was set up
C3_Witness ==
    \E e \in Returns :
        /\ e.twin # <<>>
        /\ e.event = MalformedEvent
        /\ e.environ = MainEnv

\* C4: function_info holds the context's function_name, memory_limit_in_mb
\* and aws_request_id under name, memory_limit and request_id, unchanged,
\* whatever the environment; no other field of the context is in the body.
C4_FunctionInfo ==
    \A e \in Returns :
        LET b == BodyOf(e.ret)
        IN  /\ Get(b, S_function_info) =
                   PyDict(<< <<S_name, e.context.function_name>>,
                             <<S_memory_limit, e.context.memory_limit_in_mb>>,
                             <<S_request_id, e.context.aws_request_id>> >>)
            /\ DictKeys(b) = <<S_message, S_timestamp, S_function_info,
                               S_environment_variables, S_vpc_info>>
            /\ \A i \in 1..Len(Leaves(b)) :
                   Leaves(b)[i] # e.context.invoked_function_arn

\* a call with the platform's context has returned, with names set and unset
C4_Witness ==
    \E e \in Returns :
        /\ e.context = PlatformContext
        /\ DOMAIN e.environ = {K_DB_HOST, K_AWS_REGION}
        /\ Get(Get(BodyOf(e.ret), S_function_info), S_memory_limit) = PyInt(1024)

\* C5: a call made with the same environment and the same three context
\* fields as the call before it has the same outcome and, apart from the
\* timestamp, the same response, whatever the two events, the two clock
\* readings and the calls made earlier.
C5_SameInputsSameResponse ==
    \A e \in Calls :
        e.twin # <<>> =>
            LET t == e.twin[1]
            IN  /\ t.raised = e.raised
                /\ t.exc = e.exc
                /\ ~e.raised =>
                      /\ Get(t.ret, S_statusCode) = Get(e.ret, S_statusCode)
                      /\ Get(t.ret, S_headers) = Get(e.ret, S_headers)
                      /\ BodyOf(e.ret) # Missing
                      /\ StripTimestamp(BodyOf(t.ret)) = StripTimestamp(BodyOf(e.ret))

\* two calls in a row had the same environment and context fields, but
\* different events, clock readings and ARNs, and both returned
C5_Witness ==
    \E e \in Returns :
        /\ e.twin # <<>>
        /\ e.twin[1].event # e.event
        /\ e.twin[1].now # e.now
        /\ e.twin[1].context # e.context
        /\ BodyOf(e.twin[1].ret) # BodyOf(e.ret)

C8_LocalTest ==
    /\ pc # "traceback"
    /\ pc \in {"l59", "done"} =>
          LET b    == response_body_parsed
              conf == Leaves(Get(b, S_environment_variables))
          IN  /\ Host(b) = PyStr(S_localhost)
              /\ DataBucket(b) = PyStr(S_test_data_bucket)
              /\ Get(Get(b, S_function_info), S_memory_limit) = PyInt(256)
              /\ \A i \in 1..Len(conf) : conf[i] # PyStr(NA)
              /\ Region(b) = PyStr(S_us_east_2)

\* the script has run to its end
C8_Witness ==
    /\ pc = "done"
    /\ Host(Get(pretty_response, S_body)) = PyStr(S_localhost)

\* C9: the timestamp of every body is a str that datetime.fromisoformat
\* reads back as an aware datetime with offset +00:00.
C9_TimestampIsoUtc ==
    \A e \in Returns :
        LET ts == Get(BodyOf(e.ret), S_timestamp)
        IN  /\ ts.t = "str"
            /\ LET r == FromIsoformat(ts.v)
               IN  /\ r.ok
                   /\ r.val.aware
                   /\ r.val.utcoffset = 0
                   /\ r.val.second = e.now.second
                   /\ r.val.microsecond = e.now.microsecond

\* a call has returned at a clock reading with no microseconds
C9_Witness ==
    \E e \in Returns :
        /\ e.now.microsecond = 0
        /\ Len(Get(BodyOf(e.ret), S_timestamp).v) = 25

\* the keys of every body
BodyShape ==
    << <<S_message, <<>> >>,
       <<S_timestamp, <<>> >>,
       <<S_function_info,
           << <<S_name, <<>> >>, <<S_memory_limit, <<>> >>,
              <<S_request_id, <<>> >> >> >>,
       <<S_environment_variables,
           << <<S_database, << <<S_host, <<>> >>, <<S_port, <<>> >> >> >>,
              <<S_buckets, << <<S_data_bucket, <<>> >>,
                              <<S_deployment_bucket, <<>> >> >> >> >> >>,
       <<S_vpc_info, << <<S_region, <<>> >> >> >> >>

\* C10: in each of the 32 combinations of set and unset names, each of the
\* four database and bucket fields is its own name's value, or 'N/A' when
\* the name is unset; region is AWS_REGION's value, or null when it is
\* unset, and is 'N/A' only when AWS_REGION is set to 'N/A'; the keys of
\* the body are the same in every combination.
C10_PerVariableDefaults ==
    \A e \in Returns :
        LET b == BodyOf(e.ret)
        IN  /\ \A key \in PlaceholderNames :
                   EnvField(b, key) = Shown(e.environ, key, PyStr(NA))
            /\ Region(b) = Shown(e.environ, K_AWS_REGION, PyNone)
            /\ Region(b) = PyStr(NA) =>
                   K_AWS_REGION \in DOMAIN e.environ /\ e.environ[K_AWS_REGION] = NA
            /\ Shape(b) = BodyShape

\* a call has returned with DB_HOST and DEPLOYMENT_BUCKET set and the other
\* three names unset
C10_Witness ==
    \E e \in Returns :
        /\ DOMAIN e.environ = {K_DB_HOST, K_DEPLOYMENT_BUCKET}
        /\ Port(BodyOf(e.ret)) = PyStr(NA)
        /\ Region(BodyOf(e.ret)) = PyNone

====
